---- MODULE Spec2Model ----
(***************************************************************************)
(* Model of the two CMakeLists.txt patchers of the repository:             *)
(*   src/patch_cmake_archipelago.py   (root CMakeLists.txt, "cmake")       *)
(*   src/selaco_archipelago_patch.py  (src/CMakeLists.txt,  "src")         *)
(*                                                                         *)
(* A text is a sequence of tokens.  A token is a string: one of the        *)
(* single characters the regular expressions of the scripts tell apart     *)
(* (space, newline, parentheses, double quote, dollar, braces), or a       *)
(* maximal run of other characters (a command name, an argument, a whole   *)
(* comment line).  Offsets are counted in tokens, 0-based and half-open    *)
(* as in Python; CharLen gives the length in characters.  Every regular    *)
(* expression of the scripts is translated to a matcher over tokens that   *)
(* keeps its greediness, its search order and its case sensitivity.        *)
(***************************************************************************)
EXTENDS Integers, Sequences, FiniteSets, TLC

VARIABLES script, dirExists, fileExists, fileText, backupExists, backupText,
          pc, content, prev, entry, step, targets, idx, response, exitCode,
          runs, patched, orig, out1

vars == <<script, dirExists, fileExists, fileText, backupExists, backupText,
          pc, content, prev, entry, step, targets, idx, response, exitCode,
          runs, patched, orig, out1>>

(***************************************************************************)
(* Bounds.                                                                 *)
(***************************************************************************)
MaxFrags == 3
MaxRuns == 2

(***************************************************************************)
(* Python values and string primitives over token sequences.               *)
(***************************************************************************)
None == -1

Truthy(x) == x # None /\ x # 0

At(s, k) == s[k + 1]

Slice(s, a, b) == SubSeq(s, a + 1, b)

Splice(s, k, block) == Slice(s, 0, k) \o block \o Slice(s, k, Len(s))

RECURSIVE CharLen(_)
CharLen(s) ==
    IF s = <<>> THEN 0
    ELSE IF Len(s) = 1 THEN Len(s[1])
    ELSE CharLen(SubSeq(s, 1, Len(s) \div 2)) +
         CharLen(SubSeq(s, Len(s) \div 2 + 1, Len(s)))

MinOf(S) == CHOOSE x \in S : \A y \in S : x <= y

MaxOf(S) == CHOOSE x \in S : \A y \in S : x >= y

IsSpace(t) == t \in {" ", "\n"}

RECURSIVE SkipSpace(_, _)
SkipSpace(s, k) ==
    IF k < Len(s) /\ IsSpace(At(s, k)) THEN SkipSpace(s, k + 1) ELSE k

RECURSIVE FindTok(_, _, _)
FindTok(s, t, k) ==
    IF k >= Len(s) THEN None
    ELSE IF At(s, k) = t THEN k ELSE FindTok(s, t, k + 1)

RECURSIVE RunEnd(_, _, _)
RunEnd(s, k, stop) ==
    IF k < Len(s) /\ At(s, k) \notin stop THEN RunEnd(s, k + 1, stop) ELSE k

RECURSIVE RStrip(_)
RStrip(s) ==
    IF s # <<>> /\ IsSpace(s[Len(s)]) THEN RStrip(SubSeq(s, 1, Len(s) - 1))
    ELSE s

OccursAt(s, k, w) == k + Len(w) <= Len(s) /\ Slice(s, k, k + Len(w)) = w

Contains(s, w) == \E k \in 0..Len(s) : OccursAt(s, k, w)

RECURSIVE ReplaceFrom(_, _, _, _)
ReplaceFrom(s, k, old, new) ==
    IF k + Len(old) > Len(s) THEN Slice(s, k, Len(s))
    ELSE IF OccursAt(s, k, old)
         THEN new \o ReplaceFrom(s, k + Len(old), old, new)
         ELSE <<At(s, k)>> \o ReplaceFrom(s, k + 1, old, new)

Replace(s, old, new) == ReplaceFrom(s, 0, old, new)

Lower(t) ==
    CASE t = "# ARCHIPELAGO INTEGRATION DEPENDENCIES" -> "# archipelago integration dependencies"
      [] t = "# ARCHIPELAGO INTEGRATION LIBRARY" -> "# archipelago integration library"
      [] t = "# Add Archipelago integration" -> "# add archipelago integration"
      [] t = "# Add Archipelago support to main executable" -> "# add archipelago support to main executable"
      [] t = "A" -> "a"
      [] t = "ADD_EXECUTABLE" -> "add_executable"
      [] t = "Archipelago" -> "archipelago"
      [] t = "CMAKE_A" -> "cmake_a"
      [] t = "CMAKE_B" -> "cmake_b"
      [] t = "CMAKE_BUILD_TYPE" -> "cmake_build_type"
      [] t = "DIRS" -> "dirs"
      [] t = "Debug" -> "debug"
      [] t = "Doom" -> "doom"
      [] t = "FetchContent" -> "fetchcontent"
      [] t = "FetchContent_Declare" -> "fetchcontent_declare"
      [] t = "FetchContent_MakeAvailable" -> "fetchcontent_makeavailable"
      [] t = "Foo" -> "foo"
      [] t = "LWS_WITH_LIBUV" -> "lws_with_libuv"
      [] t = "LWS_WITH_SSL" -> "lws_with_ssl"
      [] t = "N" -> "n"
      [] t = "OFF" -> "off"
      [] t = "ON" -> "on"
      [] t = "PRIVATE" -> "private"
      [] t = "PROGRAM_PREFIX" -> "program_prefix"
      [] t = "PROJECT" -> "project"
      [] t = "PROJECT_SOURCE_DIR" -> "project_source_dir"
      [] t = "PUBLIC" -> "public"
      [] t = "SELACO_AP_DEBUG=1" -> "selaco_ap_debug=1"
      [] t = "SOURCE_FILES" -> "source_files"
      [] t = "STATIC" -> "static"
      [] t = "STATUS" -> "status"
      [] t = "STREQUAL" -> "strequal"
      [] t = "SUBDIR" -> "subdir"
      [] t = "Selaco" -> "selaco"
      [] t = "VERSION" -> "version"
      [] t = "WIN32" -> "win32"
      [] t = "X" -> "x"
      [] t = "Y" -> "y"
      [] t = "ZDOOM_EXE_NAME" -> "zdoom_exe_name"
      [] t = "ZLIB" -> "zlib"
      [] OTHER -> t

HasArchipelago(t) ==
    t \in {"archipelago", "selaco_archipelago", "/src/archipelago",
           "src/archipelago/selaco_websocket.cpp", "src/archipelago"}

HasSelacoArchipelago(t) == t = "selaco_archipelago"

HasCMAKE(t) == t \in {"CMAKE_A", "CMAKE_B", "CMAKE_BUILD_TYPE"}

HasSUBDIR(t) == t = "SUBDIR"

HasSOURCE_FILES(t) == t = "SOURCE_FILES"

HasHash(t) ==
    t \in {"# ARCHIPELAGO INTEGRATION DEPENDENCIES",
           "# ARCHIPELAGO INTEGRATION LIBRARY",
           "# Add Archipelago support to main executable",
           "# Add Archipelago integration",
           "# tools"}

StartsTargetOrAdd(t) ==
    t \in {"target_link_libraries", "target_include_directories",
           "target_compile_definitions", "add_executable",
           "add_subdirectory", "add_library"}

StartsAdd(t) == t \in {"add_executable", "add_subdirectory", "add_library"}

HasGame(t) ==
    t \in {"doom", "heretic", "hexen", "strife", "selaco", "zdoom",
           "zdoom_exe_name", "selaco_archipelago",
           "src/archipelago/selaco_websocket.cpp"}

(***************************************************************************)
(* KEYWORD \s* \( [^)]{min,} \)  matched at offset k: the offset after the *)
(* closing parenthesis, or None.                                           *)
(***************************************************************************)
CallEndAt(s, kw, k, min) ==
    IF k < Len(s) /\ At(s, k) = kw
    THEN LET p == SkipSpace(s, k + 1) IN
         IF p < Len(s) /\ At(s, p) = "("
         THEN LET c == FindTok(s, ")", p + 1) IN
              IF c >= p + 1 + min THEN c + 1 ELSE None
         ELSE None
    ELSE None

SearchCall(s, kw, min) ==
    LET hits == {k \in 0..(Len(s) - 1) : CallEndAt(s, kw, k, min) # None} IN
    IF hits = {} THEN [start |-> None, end |-> None]
    ELSE [start |-> MinOf(hits), end |-> CallEndAt(s, kw, MinOf(hits), min)]

(***************************************************************************)
(* patch_cmake_archipelago.py                                              *)
(***************************************************************************)
find_cmake_minimum_required(text) ==
    SearchCall(text, "cmake_minimum_required", 1).end

\* find_project_declaration taking the whole line of the declaration
find_project_declaration_line(text) ==
    LET e == SearchCall(text, "project", 1).end IN
    IF e # None /\ e < Len(text) /\ At(text, e) = "\n" THEN e + 1 ELSE e

find_project_declaration(text) == SearchCall(text, "project", 1).end


WINDOW == 2000

NoTarget == [name |-> <<>>, pos |-> None]

target_patterns ==
    << <<"selaco">>, <<"Selaco">>, <<"zdoom">>,
       <<"$", "{", "ZDOOM_EXE_NAME", "}">> >>

\* add_executable\s*\(\s*(NAME)\s+  under re.IGNORECASE, matched at k
MainPatternAt(s, k, name) ==
    /\ k < Len(s)
    /\ Lower(At(s, k)) = "add_executable"
    /\ LET p == SkipSpace(s, k + 1) IN
       /\ p < Len(s)
       /\ At(s, p) = "("
       /\ LET q == SkipSpace(s, p + 1) IN
          /\ q + Len(name) < Len(s)
          /\ \A i \in 1..Len(name) : Lower(At(s, q + i - 1)) = Lower(name[i])
          /\ IsSpace(At(s, q + Len(name)))

MainPatternGroup(s, k, name) ==
    LET q == SkipSpace(s, SkipSpace(s, k + 1) + 1) IN Slice(s, q, q + Len(name))

\* add_executable\s*\(\s*([^\s)]+)  matched at k
AnyExecutableAt(s, k) ==
    /\ k < Len(s)
    /\ At(s, k) = "add_executable"
    /\ LET p == SkipSpace(s, k + 1) IN
       /\ p < Len(s)
       /\ At(s, p) = "("
       /\ LET q == SkipSpace(s, p + 1) IN RunEnd(s, q, {" ", "\n", ")"}) > q

AnyExecutableGroup(s, k) ==
    LET q == SkipSpace(s, SkipSpace(s, k + 1) + 1) IN
    Slice(s, q, RunEnd(s, q, {" ", "\n", ")"}))

RECURSIVE FindMainFrom(_, _)
FindMainFrom(text, i) ==
    IF i > Len(target_patterns)
    THEN LET hits == {k \in 0..(Len(text) - 1) : AnyExecutableAt(text, k)} IN
         IF hits = {} THEN NoTarget
         ELSE [name |-> AnyExecutableGroup(text, MinOf(hits)), pos |-> MinOf(hits)]
    ELSE LET hits == {k \in 0..(Len(text) - 1) :
                         MainPatternAt(text, k, target_patterns[i])} IN
         IF hits = {} THEN FindMainFrom(text, i + 1)
         ELSE [name |-> MainPatternGroup(text, MinOf(hits), target_patterns[i]),
               pos |-> MinOf(hits)]

find_main_target(text) == FindMainFrom(text, 1)

\* The block of lines 83-118, one statement of each kind the patterns of the
\* scripts tell apart (comment line, include, FetchContent_Declare, set,
\* FetchContent_MakeAvailable); the block starts and ends with a newline.
archipelago_deps ==
    << "\n", "# ARCHIPELAGO INTEGRATION DEPENDENCIES", "\n", "\n",
       "include", "(", "FetchContent", ")", "\n", "\n",
       "FetchContent_Declare", "(", "\n", " ", "libwebsockets", "\n", ")", "\n",
       "\n",
       "set", "(", "LWS_WITH_SSL", " ", "ON", ")", "\n",
       "set", "(", "LWS_WITH_LIBUV", " ", "OFF", ")", " ", "\n", "\n",
       "FetchContent_MakeAvailable", "(", "libwebsockets", " ", "json", ")",
       "\n", "\n" >>

\* the offset after the last newline of the whitespace run that starts at e
LastNewlineEnd(w, e) ==
    LET nls == {n \in e..(SkipSpace(w, e) - 1) : At(w, n) = "\n"} IN
    IF nls = {} THEN None ELSE MaxOf(nls) + 1

\* KEYWORD\s*\([^)]+\)\s*\n  matched at k
DepCallAt(w, kw, k) ==
    LET e == CallEndAt(w, kw, k, 1) IN
    IF e = None THEN None ELSE LastNewlineEnd(w, e)

\* set\s*\([^)]+\)\s*\n.*?CMAKE.*?\n  matched at k
DepSetAt(w, k) ==
    LET b == DepCallAt(w, "set", k) IN
    IF b = None THEN None
    ELSE LET nl == FindTok(w, "\n", b) IN
         IF nl # None /\ \E i \in b..(nl - 1) : HasCMAKE(At(w, i))
         THEN nl + 1 ELSE None

dependency_patterns == <<"find_package", "include", "set">>

DepPatternAt(w, i, k) ==
    IF dependency_patterns[i] = "set" THEN DepSetAt(w, k)
    ELSE DepCallAt(w, dependency_patterns[i], k)

\* re.finditer: the matches from left to right, none overlapping; the
\* largest end among them and best
RECURSIVE FinditerMaxEnd(_, _, _, _)
FinditerMaxEnd(w, i, from, best) ==
    LET hits == {k \in from..(Len(w) - 1) : DepPatternAt(w, i, k) # None} IN
    IF hits = {} THEN best
    ELSE LET e == DepPatternAt(w, i, MinOf(hits)) IN
         FinditerMaxEnd(w, i, e, IF e > best THEN e ELSE best)

RECURSIVE WindowEnd(_, _, _)
WindowEnd(s, k, budget) ==
    IF k < Len(s) /\ Len(At(s, k)) <= budget
    THEN WindowEnd(s, k + 1, budget - Len(At(s, k)))
    ELSE k

RECURSIVE LastMatchEnd(_, _, _, _)
LastMatchEnd(text, i, search_start, last_match_end) ==
    IF i > Len(dependency_patterns) THEN last_match_end
    ELSE LET w == Slice(text, search_start, WindowEnd(text, search_start, WINDOW))
             rel == FinditerMaxEnd(w, i, 0, last_match_end - search_start)
         IN  LastMatchEnd(text, i + 1, search_start, search_start + rel)

\* DependenciesInsertPoint falling back to the end of the text
DependenciesInsertPoint_end(text) ==
    LET project_end == find_project_declaration(text) IN
    IF Truthy(project_end)
    THEN LastMatchEnd(text, 1, project_end, project_end)
    ELSE LET cmake_end == find_cmake_minimum_required(text) IN
         IF Truthy(cmake_end) THEN cmake_end ELSE Len(text)

DependenciesInsertPoint(text) ==
    LET project_end == find_project_declaration(text) IN
    IF Truthy(project_end)
    THEN LastMatchEnd(text, 1, project_end, project_end)
    ELSE LET cmake_end == find_cmake_minimum_required(text) IN
         IF Truthy(cmake_end) THEN cmake_end ELSE 0

add_archipelago_dependencies(text) ==
    Splice(text, DependenciesInsertPoint(text), archipelago_deps)

\* The block of lines 155-217, one statement of each kind (comment line,
\* add_library, target_include_directories, target_link_libraries of
\* selaco_archipelago, the if/endif around target_compile_definitions).
archipelago_lib ==
    << "\n", "# ARCHIPELAGO INTEGRATION LIBRARY", "\n", "\n",
       "add_library", "(", "selaco_archipelago", " ", "STATIC", "\n",
       " ", "src/archipelago/selaco_websocket.cpp", "\n", ")", "\n", "\n",
       "target_include_directories", "(", "selaco_archipelago", "\n",
       " ", "PUBLIC", "\n", " ", "src/archipelago", "\n", ")", "\n", "\n",
       "target_link_libraries", "(", "selaco_archipelago", "\n",
       " ", "PUBLIC", "\n", " ", "websockets", "\n", ")", "\n", "\n",
       "if", "(", "CMAKE_BUILD_TYPE", " ", "STREQUAL", " ",
       "\"", "Debug", "\"", ")", "\n",
       " ", "target_compile_definitions", "(", "selaco_archipelago", " ",
       "PRIVATE", " ", "SELACO_AP_DEBUG=1", ")", "\n",
       "endif", "(", ")", "\n", "\n" >>

add_archipelago_library(text) ==
    LET target_info == find_main_target(text) IN
    IF target_info # NoTarget
    THEN Splice(text, target_info.pos, archipelago_lib)
    ELSE text \o archipelago_lib

\* KEYWORD\s*\(\s*NAME\s+[^)]*\)  matched at k: the end offset, or None
NamedCallAt(s, kw, name, k) ==
    IF k < Len(s) /\ At(s, k) = kw
    THEN LET p == SkipSpace(s, k + 1) IN
         IF p < Len(s) /\ At(s, p) = "("
         THEN LET q == SkipSpace(s, p + 1) IN
              IF /\ OccursAt(s, q, name)
                 /\ q + Len(name) < Len(s)
                 /\ IsSpace(At(s, q + Len(name)))
              THEN LET c == FindTok(s, ")", q + Len(name) + 1) IN
                   IF c = None THEN None ELSE c + 1
              ELSE None
         ELSE None
    ELSE None

SearchNamedCall(s, kw, name) ==
    LET hits == {k \in 0..(Len(s) - 1) : NamedCallAt(s, kw, name, k) # None} IN
    IF hits = {} THEN [start |-> None, end |-> None]
    ELSE [start |-> MinOf(hits), end |-> NamedCallAt(s, kw, name, MinOf(hits))]

\* \n\s*\n|\nadd_  matched at k
NextSectionAt(s, k) ==
    /\ k < Len(s)
    /\ At(s, k) = "\n"
    /\ \/ LastNewlineEnd(s, k + 1) # None
       \/ k + 1 < Len(s) /\ StartsAdd(At(s, k + 1))

archipelago_link(target_name) ==
    << "\n", "# Add Archipelago support to main executable", "\n",
       "target_link_libraries", "(" >> \o target_name \o
    << " ", "PRIVATE", " ", "selaco_archipelago", ")", "\n" >>

add_target_link(text) ==
    LET target_info == find_main_target(text) IN
    IF target_info = NoTarget THEN text
    ELSE LET name == target_info.name
             match == SearchNamedCall(text, "target_link_libraries", name)
         IN
         IF match.start # None
         THEN Splice(text, match.end, archipelago_link(name))
         ELSE LET target_match == SearchNamedCall(text, "add_executable", name) IN
              IF target_match.start # None
              THEN LET search_start == target_match.end
                       hits == {k \in search_start..(Len(text) - 1) :
                                   NextSectionAt(text, k)}
                       insert_point == IF hits = {} THEN search_start
                                       ELSE MinOf(hits)
                   IN  Splice(text, insert_point, archipelago_link(name))
              ELSE text \o archipelago_link(name)

success_msg ==
    << "\n", "message", "(", "STATUS", " ", "\"", "Selaco", " ", "Archipelago",
       " ", "integration", " ", "configured", " ", "successfully", "\"", ")",
       "\n" >>

add_success_message(text) == text \o success_msg

(***************************************************************************)
(* selaco_archipelago_patch.py                                             *)
(***************************************************************************)
archipelago_setup ==
    << "\n", "# Add Archipelago integration", "\n",
       "add_subdirectory", "(", "archipelago", ")", "\n",
       "include_directories", "(", "archipelago", ")", "\n" >>

\* foreach\s*\([^)]*SUBDIR[^)]*\)\s*\n\s*add_subdirectory\s*\([^)]*\)\s*\n
\* endforeach\s*\(\)   matched at k: the end offset, or None
SubdirPatternAt(s, k) ==
    LET c == CallEndAt(s, "foreach", k, 0) IN
    IF c = None \/ ~(\E i \in k..(c - 1) : HasSUBDIR(At(s, i))) THEN None
    ELSE LET r == SkipSpace(s, c)
             c2 == CallEndAt(s, "add_subdirectory", r, 0)
         IN
         IF LastNewlineEnd(s, c) = None \/ c2 = None THEN None
         ELSE LET r2 == SkipSpace(s, c2)
                  p3 == SkipSpace(s, r2 + 1)
              IN
              IF /\ LastNewlineEnd(s, c2) = r2
                 /\ r2 < Len(s)
                 /\ At(s, r2) = "endforeach"
                 /\ p3 + 1 < Len(s)
                 /\ At(s, p3) = "("
                 /\ At(s, p3 + 1) = ")"
              THEN p3 + 2 ELSE None

\* re.finditer(r'add_subdirectory\s*\([^)]+\)'): the end of the last match
RECURSIVE LastSubdirEnd(_, _, _)
LastSubdirEnd(s, from, best) ==
    LET hits == {k \in from..(Len(s) - 1) :
                    CallEndAt(s, "add_subdirectory", k, 1) # None} IN
    IF hits = {} THEN best
    ELSE LastSubdirEnd(s, CallEndAt(s, "add_subdirectory", MinOf(hits), 1),
                       CallEndAt(s, "add_subdirectory", MinOf(hits), 1))

\* (set\s*\([^)]*SOURCE_FILES[^)]*\)[^#]*)  with re.DOTALL, matched at k
SetupPatternAt(s, k) ==
    LET c == CallEndAt(s, "set", k, 0) IN
    IF c = None \/ ~(\E i \in k..(c - 1) : HasSOURCE_FILES(At(s, i))) THEN None
    ELSE LET hashes == {i \in c..(Len(s) - 1) : HasHash(At(s, i))} IN
         IF hashes = {} THEN Len(s) ELSE MinOf(hashes)

SubdirectoryInsertPoint(text) ==
    LET loops == {k \in 0..(Len(text) - 1) : SubdirPatternAt(text, k) # None}
        last == LastSubdirEnd(text, 0, None)
        setups == {k \in 0..(Len(text) - 1) : SetupPatternAt(text, k) # None}
    IN
    IF loops # {} THEN SubdirPatternAt(text, MinOf(loops))
    ELSE IF last # None THEN last
    ELSE IF setups # {} THEN SetupPatternAt(text, MinOf(setups))
    ELSE None

add_archipelago_subdirectory(text) ==
    LET insert_point == SubdirectoryInsertPoint(text) IN
    IF insert_point = None THEN text
    ELSE Splice(text, insert_point, archipelago_setup)

NameStop == {"}", "\"", ")", " ", "\n"}

\* the offsets "?\$?\{? can reach from q
OptPrefixEnds(s, q) ==
    LET A == {q} \cup (IF q < Len(s) /\ At(s, q) = "\"" THEN {q + 1} ELSE {})
        B == A \cup {a + 1 : a \in {x \in A : x < Len(s) /\ At(s, x) = "$"}}
    IN  B \cup {b + 1 : b \in {x \in B : x < Len(s) /\ At(s, x) = "{"}}

\* the offset \}?"? reaches from e when what follows has to be other than
\* a brace or a quote
OptSuffixEnd(s, e) ==
    LET e1 == IF e < Len(s) /\ At(s, e) = "}" THEN e + 1 ELSE e IN
    IF e1 < Len(s) /\ At(s, e1) = "\"" THEN e1 + 1 ELSE e1

\* add_executable\s*\(\s*"?\$?\{?([^}")\s]+)\}?"?  matched at k: where the
\* group starts, or None
ExecutableGroupStart(s, k) ==
    IF k < Len(s) /\ At(s, k) = "add_executable"
    THEN LET p == SkipSpace(s, k + 1) IN
         IF p < Len(s) /\ At(s, p) = "("
         THEN LET starts == {g \in OptPrefixEnds(s, SkipSpace(s, p + 1)) :
                                RunEnd(s, g, NameStop) > g} IN
              IF starts = {} THEN None ELSE MaxOf(starts)
         ELSE None
    ELSE None

IsGameTarget(target) ==
    \/ \E i \in 1..Len(target) : HasGame(Lower(target[i]))
    \/ \E i \in 1..Len(target) : target[i] = "PROGRAM_PREFIX"

\* re.findall: the groups of the matches from left to right
RECURSIVE FindallExecutables(_, _)
FindallExecutables(s, from) ==
    LET hits == {k \in from..(Len(s) - 1) : ExecutableGroupStart(s, k) # None} IN
    IF hits = {} THEN <<>>
    ELSE LET g == ExecutableGroupStart(s, MinOf(hits))
             e == RunEnd(s, g, NameStop)
         IN  <<Slice(s, g, e)>> \o FindallExecutables(s, OptSuffixEnd(s, e))

find_executable_targets(text) ==
    SelectSeq(FindallExecutables(text, 0), IsGameTarget)

NoSpan == [start |-> None, end |-> None, libs |-> None]

\* KEYWORD\s*\(\s*"?\$?\{?TARGET\}?"?  matched at k: the offset after it
QuotedNameAt(s, kw, target, k) ==
    IF k < Len(s) /\ At(s, k) = kw
    THEN LET p == SkipSpace(s, k + 1) IN
         IF p < Len(s) /\ At(s, p) = "("
         THEN LET starts == {g \in OptPrefixEnds(s, SkipSpace(s, p + 1)) :
                                OccursAt(s, g, target)} IN
              IF starts = {} THEN None
              ELSE OptSuffixEnd(s, MaxOf(starts) + Len(target))
         ELSE None
    ELSE None

\* TargetCallAt with the target name left out of the pattern: any name matches
TargetCallAt_any_target(s, kw, target, k) ==
    IF k < Len(s) /\ At(s, k) = kw /\ SkipSpace(s, k + 1) < Len(s)
       /\ At(s, SkipSpace(s, k + 1)) = "("
    THEN LET q == SkipSpace(s, SkipSpace(s, k + 1) + 1)
             starts == {g \in OptPrefixEnds(s, q) : RunEnd(s, g, NameStop) > g}
         IN  IF starts = {} THEN NoSpan
             ELSE LET h == OptSuffixEnd(s, RunEnd(s, MaxOf(starts), NameStop)) IN
                  IF h >= Len(s) \/ ~IsSpace(At(s, h)) THEN NoSpan
                  ELSE LET c == FindTok(s, ")", h) IN
                       IF c = None THEN NoSpan
                       ELSE [start |-> k, end |-> c + 1, libs |-> SkipSpace(s, h)]
    ELSE NoSpan

\* target_link_libraries\s*\(\s*"?\$?\{?TARGET\}?"?\s+([^)]*)\)  at k; the
\* same with target_include_directories
TargetCallAt(s, kw, target, k) ==
    LET h == QuotedNameAt(s, kw, target, k) IN
    IF h = None \/ h >= Len(s) \/ ~IsSpace(At(s, h)) THEN NoSpan
    ELSE LET c == FindTok(s, ")", h) IN
         IF c = None THEN NoSpan
         ELSE [start |-> k, end |-> c + 1, libs |-> SkipSpace(s, h)]

SearchTargetCall(s, kw, target) ==
    LET hits == {k \in 0..(Len(s) - 1) : TargetCallAt(s, kw, target, k) # NoSpan}
    IN  IF hits = {} THEN NoSpan ELSE TargetCallAt(s, kw, target, MinOf(hits))

\* add_executable\s*\(\s*"?\$?\{?TARGET\}?"?[^)]*\)  matched at k
ExecutableCallAt(s, target, k) ==
    LET h == QuotedNameAt(s, "add_executable", target, k) IN
    IF h = None THEN None
    ELSE LET c == FindTok(s, ")", h) IN IF c = None THEN None ELSE c + 1

\* \n\s*(?:target_|add_)  matched at k
NextStatementAt(s, k) ==
    /\ k < Len(s)
    /\ At(s, k) = "\n"
    /\ SkipSpace(s, k + 1) < Len(s)
    /\ StartsTargetOrAdd(At(s, SkipSpace(s, k + 1)))

new_link_call(target, existing_libs) ==
    <<"target_link_libraries", "(", "\"">> \o target \o <<"\"", " ">> \o
    RStrip(existing_libs) \o <<" ", "archipelago">> \o <<")">>

new_archipelago_link(target) ==
    <<"\n", "target_link_libraries", "(", "\"">> \o target \o
    <<"\"", " ", "archipelago", ")", "\n">>

LinkInsertPoint(text, target) ==
    LET exes == {k \in 0..(Len(text) - 1) : ExecutableCallAt(text, target, k) # None}
    IN
    IF exes = {} THEN None
    ELSE LET search_start == ExecutableCallAt(text, target, MinOf(exes))
             next == {k \in search_start..(Len(text) - 1) : NextStatementAt(text, k)}
         IN  IF next = {} THEN search_start ELSE MinOf(next)

\* LinkTarget that appends the statement at the end of the text when the
\* declaration of the target is not found again
LinkTarget_append(text, target) ==
    LET match == SearchTargetCall(text, "target_link_libraries", target) IN
    IF match # NoSpan
    THEN LET existing_libs == Slice(text, match.libs, match.end - 1) IN
         IF \E i \in 1..Len(existing_libs) : HasArchipelago(existing_libs[i])
         THEN text
         ELSE Replace(text, Slice(text, match.start, match.end),
                      new_link_call(target, existing_libs))
    ELSE LET insert_point == LinkInsertPoint(text, target) IN
         IF insert_point = None THEN text \o new_archipelago_link(target)
         ELSE Splice(text, insert_point, new_archipelago_link(target))

\* LinkTarget that never extends a statement: always a fresh one
LinkTarget_fresh(text, target) ==
    LET insert_point == LinkInsertPoint(text, target) IN
    IF insert_point = None THEN text
    ELSE Splice(text, insert_point, new_archipelago_link(target))

\* one iteration of the loop of add_archipelago_linking
LinkTarget(text, target) ==
    LET match == SearchTargetCall(text, "target_link_libraries", target) IN
    IF match # NoSpan
    THEN LET existing_libs == Slice(text, match.libs, match.end - 1) IN
         IF \E i \in 1..Len(existing_libs) : HasArchipelago(existing_libs[i])
         THEN text
         ELSE Replace(text, Slice(text, match.start, match.end),
                      new_link_call(target, existing_libs))
    ELSE LET insert_point == LinkInsertPoint(text, target) IN
         IF insert_point = None THEN text
         ELSE Splice(text, insert_point, new_archipelago_link(target))

RECURSIVE LinkAll(_, _, _)
LinkAll(text, ts, i) ==
    IF i > Len(ts) THEN text ELSE LinkAll(LinkTarget(text, ts[i]), ts, i + 1)

add_archipelago_linking(text) == LinkAll(text, find_executable_targets(text), 1)

include_suffix == <<" ", "$", "{", "PROJECT_SOURCE_DIR", "}", "/src/archipelago">>

IncludeTarget(text, target) ==
    LET match == SearchTargetCall(text, "target_include_directories", target) IN
    IF match = NoSpan THEN text
    ELSE LET existing_call == Slice(text, match.start, match.end) IN
         IF \E i \in 1..Len(existing_call) : HasArchipelago(existing_call[i])
         THEN text
         ELSE Replace(text, existing_call,
                      SubSeq(existing_call, 1, Len(existing_call) - 1) \o
                      include_suffix \o <<")">>)

RECURSIVE IncludeAll(_, _, _)
IncludeAll(text, ts, i) ==
    IF i > Len(ts) THEN text ELSE IncludeAll(IncludeTarget(text, ts[i]), ts, i + 1)

add_archipelago_include_to_targets(text) ==
    IncludeAll(text, find_executable_targets(text), 1)

(***************************************************************************)
(* The input documents: up to MaxFrags statements of a CMakeLists.txt.     *)
(***************************************************************************)
\* A comment line of 1979 characters, which no pattern of the scripts
\* matches: with the newline before it and the one after it, a statement of
\* 19 characters behind it ends exactly WINDOW characters after project(Foo).
LongComment ==
    "#=========================================================================================================================================================================================================================================================================================================================================================================================================================================================================================================================================================================================================================================================================================================================================================================================================================================================================================================================================================================================================================================================================================================================================================================================================================================================================================================================================================================================================================================================================================================================================================================================================================================================================================================================================================================================================================================================================================================================================================================================================================================================="

CmakeFrags ==
    << <<"cmake_minimum_required", "(", "VERSION", " ", "3.1", ")", "\n">>,
       <<"project", "(", "Foo", ")", "\n">>,
       <<"find_package", "(", "ZLIB", ")", "\n">>,
       <<"add_executable", "(", "zdoom", " ", "a.c", ")", "\n">>,
       <<"add_executable", "(", "tool", " ", "t.c", ")", "\n">>,
       <<"target_link_libraries", "(", "zdoom", " ", "m", ")", "\n">>,
       <<"\n">>,
       <<"add_subdirectory", "(", "src", ")", "\n">>,
       <<"set", "(", "CMAKE_A", " ", "1", ")", "\n">>,
       <<"set", "(", "CMAKE_A", " ", "1", ")", "\n",
         "set", "(", "CMAKE_B", " ", "2", ")", "\n">>,
       <<LongComment, "\n">> >>

SrcFrags ==
    << <<"add_subdirectory", "(", "common", ")", "\n">>,
       <<"add_executable", "(", "doom", " ", "a.c", ")", "\n">>,
       <<"add_executable", "(", "heretic", " ", "b.c", ")", "\n">>,
       <<"target_link_libraries", "(", "doom", " ", "m", ")", "\n">>,
       <<"target_link_libraries", "(", "heretic", "\n", " ", "m", ")", "\n">>,
       <<"target_link_libraries", "(", "doom", " ", "archipelago", ")", "\n">>,
       <<"set", "(", "SOURCE_FILES", " ", "a.c", ")", "\n">>,
       <<"target_include_directories", "(", "doom", " ", "PRIVATE", " ",
         "inc", ")", "\n">>,
       <<"foreach", "(", "SUBDIR", " ", "$", "{", "DIRS", "}", ")", "\n",
         " ", "add_subdirectory", "(", "$", "{", "SUBDIR", "}", ")", "\n",
         "endforeach", "(", ")", "\n">> >>

FragsOf(sc) == IF sc = "cmake" THEN CmakeFrags ELSE SrcFrags

RECURSIVE Concat(_, _)
Concat(frags, picks) ==
    IF picks = <<>> THEN <<>>
    ELSE frags[Head(picks)] \o Concat(frags, Tail(picks))

\* A declaration the file breaks off in: no closing parenthesis follows
UnclosedTail == <<"add_executable", "(", "hexen", "\n">>

TailsOf(sc) == IF sc = "cmake" THEN {<<>>} ELSE {<<>>, UnclosedTail}

Documents(sc) ==
    {Concat(FragsOf(sc), picks) \o tail :
        picks \in UNION {[1..n -> 1..Len(FragsOf(sc))] : n \in 0..MaxFrags},
        tail \in TailsOf(sc)}

Scripts == {"cmake", "src"}

ArgCounts == {2, 3}

Responses == {"y", "Y", "n", ""}

(***************************************************************************)
(* main, patch_cmake_file and patch_src_cmake, one action per call.        *)
(***************************************************************************)
Signature(sc, text) ==
    IF sc = "cmake"
    THEN \E i \in 1..Len(text) : HasSelacoArchipelago(text[i])
    ELSE Contains(text, <<"add_subdirectory", "(", "archipelago", ")">>)

Init ==
    /\ script \in Scripts
    /\ dirExists \in BOOLEAN
    /\ fileExists \in BOOLEAN
    /\ fileExists => dirExists
    /\ fileText \in (IF fileExists THEN Documents(script) ELSE {<<>>})
    /\ backupExists = FALSE
    /\ backupText = <<>>
    /\ pc = "idle"
    /\ content = <<>>
    /\ prev = <<>>
    /\ entry = <<>>
    /\ step = "none"
    /\ targets = <<>>
    /\ idx = 0
    /\ response = "none"
    /\ exitCode = None
    /\ runs = 0
    /\ patched = 0
    /\ orig = fileText
    /\ out1 = <<>>

Main ==
    /\ pc \in {"idle", "done"}
    /\ runs < MaxRuns
    /\ runs' = runs + 1
    /\ prev' = <<>>
    /\ entry' = <<>>
    /\ step' = "none"
    /\ targets' = <<>>
    /\ idx' = 0
    /\ response' = "none"
    /\ \E n \in ArgCounts :
          IF n # 2 \/ ~dirExists \/ ~fileExists
          THEN /\ pc' = "done"
               /\ exitCode' = 1
               /\ content' = <<>>
          ELSE /\ content' = fileText
               /\ exitCode' = None
               /\ pc' = IF Signature(script, fileText) THEN "prompt" ELSE "backup"
    /\ UNCHANGED <<script, dirExists, fileExists, fileText, backupExists,
                   backupText, patched, orig, out1>>

\* Prompt that goes on whatever the answer
Prompt_ignored ==
    /\ pc = "prompt"
    /\ \E r \in Responses : response' = r
    /\ pc' = "backup"
    /\ UNCHANGED <<script, dirExists, fileExists, fileText, backupExists,
                   backupText, content, prev, entry, step, targets, idx, runs,
                   exitCode, patched, orig, out1>>

Prompt ==
    /\ pc = "prompt"
    /\ \E r \in Responses :
          /\ response' = r
          /\ IF Lower(r) # "y"
             THEN pc' = "done" /\ exitCode' = 0
             ELSE pc' = "backup" /\ exitCode' = exitCode
    /\ UNCHANGED <<script, dirExists, fileExists, fileText, backupExists,
                   backupText, content, prev, entry, step, targets, idx, runs,
                   patched, orig, out1>>

\* backup_file that copies whether or not a backup exists
backup_file_overwrite ==
    /\ pc = "backup"
    /\ backupExists' = TRUE
    /\ backupText' = fileText
    /\ pc' = "read"
    /\ UNCHANGED <<script, dirExists, fileExists, fileText, content, prev,
                   entry, step, targets, idx, response, exitCode, runs,
                   patched, orig, out1>>

backup_file ==
    /\ pc = "backup"
    /\ IF ~backupExists
       THEN backupExists' = TRUE /\ backupText' = fileText
       ELSE UNCHANGED <<backupExists, backupText>>
    /\ pc' = "read"
    /\ UNCHANGED <<script, dirExists, fileExists, fileText, content, prev,
                   entry, step, targets, idx, response, exitCode, runs,
                   patched, orig, out1>>

read_file ==
    /\ pc = "read"
    /\ content' = fileText
    /\ pc' = IF script = "cmake" THEN "deps" ELSE "subdir"
    /\ UNCHANGED <<script, dirExists, fileExists, fileText, backupExists,
                   backupText, prev, entry, step, targets, idx, response,
                   exitCode, runs, patched, orig, out1>>

Apply(at, name, result, to) ==
    /\ pc = at
    /\ prev' = content
    /\ entry' = content
    /\ content' = result
    /\ step' = name
    /\ pc' = to
    /\ UNCHANGED <<script, dirExists, fileExists, fileText, backupExists,
                   backupText, targets, idx, response, exitCode, runs,
                   patched, orig, out1>>

Dependencies ==
    Apply("deps", "add_archipelago_dependencies",
          add_archipelago_dependencies(content), "lib")

Library ==
    Apply("lib", "add_archipelago_library", add_archipelago_library(content),
          "link")

TargetLink == Apply("link", "add_target_link", add_target_link(content), "msg")

SuccessMessage ==
    Apply("msg", "add_success_message", add_success_message(content), "write")

Subdirectory ==
    Apply("subdir", "add_archipelago_subdirectory",
          add_archipelago_subdirectory(content), "linking")

LinkingBegin ==
    /\ pc = "linking"
    /\ targets' = find_executable_targets(content)
    /\ idx' = 1
    /\ entry' = content
    /\ prev' = content
    /\ step' = "find_executable_targets"
    /\ pc' = IF find_executable_targets(content) = <<>> THEN "includes"
             ELSE "linkloop"
    /\ UNCHANGED <<script, dirExists, fileExists, fileText, backupExists,
                   backupText, content, response, exitCode, runs, patched,
                   orig, out1>>

LinkingTarget ==
    /\ pc = "linkloop"
    /\ idx <= Len(targets)
    /\ prev' = content
    /\ content' = LinkTarget(content, targets[idx])
    /\ idx' = idx + 1
    /\ step' = "link_target"
    /\ pc' = IF idx = Len(targets) THEN "includes" ELSE "linkloop"
    /\ UNCHANGED <<script, dirExists, fileExists, fileText, backupExists,
                   backupText, entry, targets, response, exitCode, runs,
                   patched, orig, out1>>

IncludeTargets ==
    Apply("includes", "add_archipelago_include_to_targets",
          add_archipelago_include_to_targets(content), "write")

write_file ==
    /\ pc = "write"
    /\ fileText' = content
    /\ pc' = "done"
    /\ exitCode' = 0
    /\ patched' = patched + 1
    /\ out1' = IF patched = 0 THEN content ELSE out1
    /\ UNCHANGED <<script, dirExists, fileExists, backupExists, backupText,
                   content, prev, entry, step, targets, idx, response, runs,
                   orig>>

Next ==
    \/ Main
    \/ Prompt
    \/ backup_file
    \/ read_file
    \/ Dependencies
    \/ Library
    \/ TargetLink
    \/ SuccessMessage
    \/ Subdirectory
    \/ LinkingBegin
    \/ LinkingTarget
    \/ IncludeTargets
    \/ write_file

Spec == Init /\ [][Next]_vars

(***************************************************************************)
(* Vocabulary of the properties.                                           *)
(***************************************************************************)
\* the index of b just past the leftmost embedding of a[lo..hi] in b[j..],
\* or Len(b) + 2 when there is none
RECURSIVE EmbedEnd(_, _, _, _, _)
EmbedEnd(a, b, lo, hi, j) ==
    IF lo > hi THEN j
    ELSE IF lo = hi
         THEN IF \E k \in j..Len(b) : b[k] = a[lo]
              THEN MinOf({k \in j..Len(b) : b[k] = a[lo]}) + 1
              ELSE Len(b) + 2
         ELSE LET mid == (lo + hi) \div 2
                  m == EmbedEnd(a, b, lo, mid, j)
              IN  IF m > Len(b) + 1 THEN m
                  ELSE EmbedEnd(a, b, mid + 1, hi, m)

IsSubseq(a, b) == EmbedEnd(a, b, 1, Len(a), 1) <= Len(b) + 1

NoTok(text, t) == \A i \in 1..Len(text) : text[i] # t

HasArch(text) == \E i \in 1..Len(text) : HasArchipelago(text[i])

\* the add_executable declarations of target in text, in document order
RECURSIVE DeclTexts(_, _, _)
DeclTexts(text, target, k) ==
    IF k >= Len(text) THEN <<>>
    ELSE IF ExecutableCallAt(text, target, k) # None
         THEN <<Slice(text, k, ExecutableCallAt(text, target, k))>> \o
              DeclTexts(text, target, k + 1)
         ELSE DeclTexts(text, target, k + 1)

\* the target_link_libraries statements of target in text, in document order
RECURSIVE LinkTexts(_, _, _)
LinkTexts(text, target, k) ==
    IF k >= Len(text) THEN <<>>
    ELSE IF TargetCallAt(text, "target_link_libraries", target, k) # NoSpan
         THEN <<Slice(text, k,
                      TargetCallAt(text, "target_link_libraries", target, k).end)>>
              \o LinkTexts(text, target, k + 1)
         ELSE LinkTexts(text, target, k + 1)

Occurrences(text, w) == Cardinality({k \in 0..Len(text) : OccursAt(text, k, w)})

\* a whole patch function has run: entry is its input, content its output
FunctionDone ==
    /\ step # "none"
    /\ pc \in {"lib", "link", "msg", "write", "linking", "includes"}

\* one iteration of the linking loop has run, for target targets[idx - 1]
IterationDone == step = "link_target" /\ pc \in {"linkloop", "includes"}

ProjectLine == <<"project", "(", "Foo", ")", "\n">>

(***************************************************************************)
(* C1.  Re-applying the patch pipeline is a no-op: the file written by the *)
(* second completed run equals the file written by the first.              *)
(***************************************************************************)
Idempotent_C1 == patched >= 2 => fileText = out1

(***************************************************************************)
(* C2.  Every patch function is a pure insertion: its output is at least   *)
(* as long as its input and contains the input as a subsequence.           *)
(***************************************************************************)
PureInsertion_C2 ==
    FunctionDone =>
        /\ IsSubseq(entry, content)
        /\ CharLen(entry) <= CharLen(content)

Isolation_C4 ==
    IterationDone =>
        \A i \in 1..Len(targets) :
            targets[i] # targets[idx - 1] =>
                /\ DeclTexts(content, targets[i], 0) = DeclTexts(prev, targets[i], 0)
                /\ LinkTexts(content, targets[i], 0) = LinkTexts(prev, targets[i], 0)

IsolationReached_C4 ==
    /\ IterationDone
    /\ content # prev
    /\ \E i \in 1..Len(targets) :
          /\ targets[i] # targets[idx - 1]
          /\ LinkTexts(prev, targets[i], 0) # <<>>

(***************************************************************************)
(* C5.  A target that links archipelago in a target_link_libraries         *)
(* statement of its own is left untouched; a target whose own statements   *)
(* do not name archipelago is linked.                                      *)
(***************************************************************************)
OwnListIdempotence_C5 ==
    IterationDone =>
        LET A == targets[idx - 1]
            links == LinkTexts(prev, A, 0)
            after == LinkTexts(content, A, 0)
        IN  IF \E i \in 1..Len(links) : HasArch(links[i])
            THEN after = links
            ELSE \E i \in 1..Len(after) : HasArch(after[i])

(***************************************************************************)
(* C6.  When no discovered target has a link statement, the output of      *)
(* add_archipelago_linking holds exactly one new statement per target,     *)
(* directly after the target's own add_executable declaration.             *)
(***************************************************************************)
FreshLinksInPlace_C6 ==
    ( /\ pc = "includes"
      /\ step = "link_target"
      /\ \A i \in 1..Len(targets) : LinkTexts(entry, targets[i], 0) = <<>> )
    => \A i \in 1..Len(targets) :
          /\ Occurrences(content, new_archipelago_link(targets[i])) = 1
          /\ \E k \in 0..Len(content) :
                /\ ExecutableCallAt(content, targets[i], k) # None
                /\ OccursAt(content, ExecutableCallAt(content, targets[i], k),
                            new_archipelago_link(targets[i]))

(***************************************************************************)
(* C7.  The backup holds the content the file had before the first run:    *)
(* it is made before the file is written and never overwritten.            *)
(***************************************************************************)
BackupPreserved_C7 ==
    /\ backupExists => backupText = orig
    /\ (patched > 0 \/ fileText # orig) => backupExists
    /\ pc \in {"read", "deps", "lib", "link", "msg", "subdir", "linking",
               "linkloop", "includes", "write"} => backupExists

BackupReached_C7 ==
    /\ patched = 2
    /\ backupExists
    /\ backupText = orig
    /\ out1 # orig
    /\ fileText # out1

(***************************************************************************)
(* C8 as claimed.  main leaves the file and the backup alone and exits     *)
(* with 1 when the directory or the file is absent, leaves them alone and  *)
(* exits with 0 when the answer at the prompt is anything other than "y",  *)
(* and touches a file that shows the signature only after the answer "y".  *)
(***************************************************************************)
OnlyLowercaseY_C8 ==
    [][ /\ (~dirExists \/ ~fileExists) =>
              /\ UNCHANGED <<fileText, backupExists, backupText>>
              /\ pc' = "done" => exitCode' = 1
        /\ (pc = "prompt" /\ response' # "y") =>
              /\ pc' = "done"
              /\ exitCode' = 0
              /\ UNCHANGED <<fileText, backupExists, backupText>>
        /\ ( /\ Signature(script, fileText)
             /\ <<fileText, backupExists, backupText>>' #
                <<fileText, backupExists, backupText>> )
           => response = "y" ]_vars

(***************************************************************************)
(* C8 amended.  The same, with the answer compared case-insensitively:     *)
(* "y" and "Y" both confirm, every other answer aborts.                    *)
(***************************************************************************)
AbortKeepsFile_C8 ==
    [][ /\ (~dirExists \/ ~fileExists) =>
              /\ UNCHANGED <<fileText, backupExists, backupText>>
              /\ pc' = "done" => exitCode' = 1
        /\ (pc = "prompt" /\ response' \notin {"y", "Y"}) =>
              /\ pc' = "done"
              /\ exitCode' = 0
              /\ UNCHANGED <<fileText, backupExists, backupText>>
        /\ ( /\ Signature(script, fileText)
             /\ <<fileText, backupExists, backupText>>' #
                <<fileText, backupExists, backupText>> )
           => response \in {"y", "Y"} ]_vars

AbortReached_C8 ==
    /\ pc = "done"
    /\ response \in {"n", ""}
    /\ exitCode = 0
    /\ patched = 1
    /\ fileText = out1
    /\ backupText = orig

(***************************************************************************)
(* C9 as claimed.  For the text "project(Foo)\n" the dependency block is   *)
(* placed after the line: the output is the text followed by the block.    *)
(***************************************************************************)
AfterProjectLine_C9 ==
    (pc = "lib" /\ step = "add_archipelago_dependencies" /\ prev = ProjectLine)
    => content = ProjectLine \o archipelago_deps

(***************************************************************************)
(* C9 amended.  For the text "project(Foo)\n" the dependency block is      *)
(* placed directly after the closing parenthesis, before the newline: the  *)
(* output is "project(Foo)", the block, "\n".                              *)
(***************************************************************************)
AfterProjectParenthesis_C9 ==
    (pc = "lib" /\ step = "add_archipelago_dependencies" /\ prev = ProjectLine)
    => content = <<"project", "(", "Foo", ")">> \o archipelago_deps \o <<"\n">>

ProjectOnlyReached_C9 ==
    /\ pc = "lib"
    /\ step = "add_archipelago_dependencies"
    /\ prev = ProjectLine
    /\ Len(content) = Len(ProjectLine) + Len(archipelago_deps)

(***************************************************************************)
(* C10.  A target that has a target_link_libraries statement gets          *)
(* archipelago appended to it and no new statement: the number of its      *)
(* link statements is unchanged.  Only a target with none gets a new one.  *)
(***************************************************************************)
ExtendExisting_C10 ==
    IterationDone =>
        LET A == targets[idx - 1]
            links == LinkTexts(prev, A, 0)
            after == LinkTexts(content, A, 0)
        IN  /\ links # <<>> =>
                /\ Len(after) = Len(links)
                /\ content # prev =>
                      /\ ~HasArch(links[1])
                      /\ SubSeq(after[1], Len(after[1]) - 2, Len(after[1])) =
                            <<" ", "archipelago", ")">>
                /\ Occurrences(content, new_archipelago_link(A)) =
                      Occurrences(prev, new_archipelago_link(A))
            /\ links = <<>> => Len(after) <= 1

ExtendReached_C10 ==
    /\ IterationDone
    /\ LinkTexts(prev, targets[idx - 1], 0) # <<>>
    /\ content # prev

\* none of the three anchors of add_archipelago_subdirectory can match
NoSubdirectoryAnchor(text) ==
    \A i \in 1..Len(text) :
        text[i] # "add_subdirectory" /\ ~HasSOURCE_FILES(text[i])

\* no add_executable in any spelling
NoExecutable(text) == \A i \in 1..Len(text) : Lower(text[i]) # "add_executable"

\* neither a link statement nor a declaration of the target is found
NotLocated(text, target) ==
    LinkTexts(text, target, 0) = <<>> /\ DeclTexts(text, target, 0) = <<>>

(***************************************************************************)
(* C11.  A missing anchor never aborts a run.  add_archipelago_subdirectory *)
(* without any of its anchors, add_target_link without a main target and   *)
(* add_archipelago_linking without targets return the text unchanged; a    *)
(* discovered target whose declaration is not found again is skipped and  *)
(* the loop goes on with the next target.  Every step hands over to the    *)
(* next one, and the write ends the run with the content written and exit  *)
(* code 0.                                                                 *)
(***************************************************************************)
MissingAnchorSkips_C11 ==
    [][ /\ (pc = "subdir" /\ NoSubdirectoryAnchor(content)) =>
              (content' = content /\ pc' = "linking")
        /\ (pc = "link" /\ NoExecutable(content)) =>
              (content' = content /\ pc' = "msg")
        /\ (pc = "linking" /\ NoExecutable(content)) =>
              (content' = content /\ pc' = "includes")
        /\ (pc = "linkloop" /\ NotLocated(content, targets[idx])) =>
              /\ content' = content
              /\ idx' = idx + 1
              /\ pc' = IF idx < Len(targets) THEN "linkloop" ELSE "includes"
        /\ pc \in {"backup", "read", "deps", "lib", "link", "msg", "subdir",
                   "linking", "linkloop", "includes"} =>
              pc' \notin {"idle", "prompt", "done"}
        /\ pc = "write" =>
              (fileText' = content /\ pc' = "done" /\ exitCode' = 0) ]_vars

SkippedTargetReached_C11 ==
    /\ script = "src"
    /\ pc = "done"
    /\ exitCode = 0
    /\ patched = 1
    /\ fileText # orig
    /\ Len(targets) >= 2
    /\ \E i \in 1..Len(targets) : NotLocated(fileText, targets[i])
    /\ \E i \in 1..Len(targets) : HasArch(Head(LinkTexts(fileText, targets[i], 0) \o <<<<>>>>))

\* the characters before token offset k
CharsBefore(text, k) == CharLen(Slice(text, 0, k))

\* the last token offset at most WINDOW characters after token offset p
WindowLimit(text, p) ==
    MaxOf({k \in p..Len(text) : CharsBefore(text, k) <= CharsBefore(text, p) + WINDOW})

\* where the dependency patterns end when matched anywhere between p and q
AnchorEnds(text, p, q) ==
    {p + DepPatternAt(Slice(text, p, q), i, k) :
        <<i, k>> \in {x \in (1..Len(dependency_patterns)) \X (0..(q - p)) :
                         DepPatternAt(Slice(text, p, q), x[1], x[2]) # None}}

(***************************************************************************)
(* C12.  With a project declaration that ends at offset p, the dependency  *)
(* block is inserted at an offset o with p <= o <= min(p + 2000, len): o   *)
(* is p when no dependency pattern matches inside the window, and else the *)
(* largest end of a match that lies inside the window.                     *)
(***************************************************************************)
WindowedResolution_C12 ==
    ( /\ pc = "lib"
      /\ step = "add_archipelago_dependencies"
      /\ find_project_declaration(prev) # None )
    => LET p == find_project_declaration(prev)
           ends == AnchorEnds(prev, p, WindowLimit(prev, p))
           o == IF ends = {} THEN p ELSE MaxOf(ends)
       IN  /\ content = Splice(prev, o, archipelago_deps)
           /\ p <= o
           /\ CharsBefore(prev, o) <= CharsBefore(prev, p) + WINDOW
           /\ o <= Len(prev)

(***************************************************************************)
(* C13.  Once a run has written the file, the file shows the completion    *)
(* signature that main of the same script looks for, and a later run does *)
(* not get from main to the backup without passing the prompt.             *)
(***************************************************************************)
SignatureWritten_C13 ==
    /\ patched >= 1 => Signature(script, fileText)
    /\ (patched >= 1 /\ pc = "backup") => response \in Responses

\* the first offset at or after from where w occurs in text, or None
FirstOccurrence(text, w, from) ==
    IF \E k \in from..Len(text) : OccursAt(text, k, w)
    THEN MinOf({k \in from..Len(text) : OccursAt(text, k, w)})
    ELSE None

(***************************************************************************)
(* C14.  In the text patch_cmake_file writes for an input with a main      *)
(* executable target, the dependency block lies before the library block,  *)
(* the library block ends where the add_executable of the main target      *)
(* begins, and the statement that links selaco_archipelago into the main   *)
(* target lies after the library block.                                    *)
(***************************************************************************)
BlocksInOrder_C14 ==
    ( /\ script = "cmake"
      /\ pc = "write"
      /\ runs = 1
      /\ find_main_target(orig) # NoTarget )
    => LET d == FirstOccurrence(content, archipelago_deps, 0)
           l == FirstOccurrence(content, archipelago_lib, 0)
           main == find_main_target(content)
       IN  /\ d # None
           /\ l # None
           /\ d + Len(archipelago_deps) <= l
           /\ main # NoTarget
           /\ main.name = find_main_target(orig).name
           /\ l + Len(archipelago_lib) = main.pos
           /\ FirstOccurrence(content, archipelago_link(main.name),
                              l + Len(archipelago_lib)) # None

====
